---- MODULE Spec2Model ----
(***************************************************************************)
(* A model of the x86_vcpu crate: the general-purpose Register File with   *)
(* its indexed and sub-width accessors (regs/mod.rs, regs/accessors.rs),   *)
(* the register diff (regs/diff.rs), the VMX definitions                   *)
(* (vmx/definitions.rs) and the RAII physical frame (frame.rs).            *)
(*                                                                         *)
(* Machine integers are little-endian byte vectors: a u64 is a function    *)
(* 0..7 -> 0..255, a u32 a function 0..3 -> 0..255, and so on; byte 0 is   *)
(* the least significant one.  Shifts, masks and casts are computed on     *)
(* that representation, so that they wrap and truncate as the hardware     *)
(* integers do.                                                            *)
(***************************************************************************)
EXTENDS Integers, Sequences, FiniteSets, TLC

VARIABLES
    row,        \* the register a run works on: its row of the accessor tables
    regs,       \* the GeneralRegisters under operation (a record of u64 fields)
    saved,      \* an earlier copy of a GeneralRegisters (the `old` of a diff)
    last,       \* the last call made on the Register File and what it returned
    nops,       \* number of calls made so far on the Register File
    panicked,   \* TRUE once a panic!/assert!/expect has aborted the program
    vmx,        \* the last call of a vmx/definitions.rs function: [fn, arg, ret]
    frames,     \* the live PhysFrame objects: frame id -> start_paddr (Option)
    nframes,    \* number of PhysFrame objects constructed so far
    hostAlloc,  \* host allocator: the set of pages handed out and not yet freed
    hostLog,    \* the calls made to the host's PhysFrameIf, in order
    mem,        \* physical memory: byte address -> byte
    flast,      \* the last PhysFrame operation and what it returned
    fops,       \* number of PhysFrame operations made so far
    asm,        \* the processor and its stack under save_regs_to_stack! and
                \* restore_regs_from_stack!
    vcpu,       \* cores, Control Blocks and guest Register Files of the VMX layer
    vlast,      \* the last operation of the VMX layer and what it returned
    vops        \* number of operations of the VMX layer made so far

vars == <<row, regs, saved, last, nops, panicked, vmx, frames, nframes, hostAlloc,
          hostLog, mem, flast, fops, asm, vcpu, vlast, vops>>

regVars   == <<row, regs, saved, last, nops>>
vmxVars   == <<vmx>>
frameVars == <<frames, nframes, hostAlloc, hostLog, mem, flast, fops>>
asmVars   == <<asm>>
vcpuVars  == <<vcpu, vlast, vops>>

(***************************************************************************)
(* Machine integers                                                        *)
(***************************************************************************)
Byte == 0..255

\* 2^n for small n
Pow2(n) == 2^n

\* the number of bytes of an integer type of `bits` bits
BytesOf(bits) == bits \div 8

\* the values of an unsigned integer type of `bits` bits
UInt(bits) == [0..(BytesOf(bits) - 1) -> Byte]

\* the u64 written as its eight bytes, most significant first (as in 0x...)
Hex64(s) == [i \in 0..7 |-> s[8 - i]]
\* the u32, u16 and u8 written the same way
Hex32(s) == [i \in 0..3 |-> s[4 - i]]
Hex16(s) == [i \in 0..1 |-> s[2 - i]]
Hex8(b)  == [i \in 0..0 |-> b]

\* 0u64 and 1u64
Zero64 == [i \in 0..7 |-> 0]
One64  == [i \in 0..7 |-> IF i = 0 THEN 1 ELSE 0]

\* bit k (0..63) of a u64
BitOf(w, k) == (w[k \div 8] \div Pow2(k % 8)) % 2

\* `value as u64` of a narrower unsigned value: zero extension
AsU64(v) == [i \in 0..7 |-> IF i \in DOMAIN v THEN v[i] ELSE 0]

\* `value as $type` of a u64: truncation to the low `bits` bits
AsType(w, bits) == [i \in 0..(BytesOf(bits) - 1) |-> w[i]]

\* w << n on u64 (n in 0..63): bits shifted out at the top are lost
Shl(w, n) ==
    LET q == n \div 8
        r == n % 8
    IN  [i \in 0..7 |->
            IF i < q THEN 0
            ELSE ((w[i - q] * Pow2(r)) % 256)
                 + (IF i - q - 1 >= 0 THEN w[i - q - 1] \div Pow2(8 - r) ELSE 0)]

\* w >> n on u64 (n in 0..63), logical
Shr(w, n) ==
    LET q == n \div 8
        r == n % 8
    IN  [i \in 0..7 |->
            IF i + q > 7 THEN 0
            ELSE (w[i + q] \div Pow2(r))
                 + (IF i + q + 1 <= 7 THEN (w[i + q + 1] * Pow2(8 - r)) % 256 ELSE 0)]

\* w - 1 on u64, wrapping: the borrow runs through the low zero bytes
Dec(w) ==
    [i \in 0..7 |->
        IF \A j \in 0..(i - 1) : w[j] = 0 THEN (w[i] + 255) % 256 ELSE w[i]]

\* bitwise and / or of two bytes
RECURSIVE ByteAnd(_, _, _)
ByteAnd(a, b, n) ==
    IF n = 0 THEN 0
    ELSE (a % 2) * (b % 2) + 2 * ByteAnd(a \div 2, b \div 2, n - 1)

RECURSIVE ByteOr(_, _, _)
ByteOr(a, b, n) ==
    IF n = 0 THEN 0
    ELSE (IF a % 2 = 1 \/ b % 2 = 1 THEN 1 ELSE 0)
         + 2 * ByteOr(a \div 2, b \div 2, n - 1)

\* a & b, a | b and !a on u64
And(a, b) == [i \in 0..7 |-> ByteAnd(a[i], b[i], 8)]
Or(a, b)  == [i \in 0..7 |-> ByteOr(a[i], b[i], 8)]
Not(a)    == [i \in 0..7 |-> 255 - a[i]]

(***************************************************************************)
(* Register File: regs/mod.rs                                              *)
(***************************************************************************)
\* the fields of struct GeneralRegisters, in their #[repr(C)] order
FieldOrder ==
    <<"rax", "rcx", "rdx", "rbx", "_unused_rsp", "rbp", "rsi", "rdi",
      "r8", "r9", "r10", "r11", "r12", "r13", "r14", "r15">>

Fields == {FieldOrder[k] : k \in DOMAIN FieldOrder}

\* GeneralRegisters::default(): every field 0
Default == [f \in Fields |-> Zero64]

\* GeneralRegisters::REGISTER_NAMES, indexed from 0 as the array is
REGISTER_NAMES ==
    [i \in 0..15 |->
        <<"rax", "rcx", "rdx", "rbx", "rsp", "rbp", "rsi", "rdi", "r8", "r9",
          "r10", "r11", "r12", "r13", "r14", "r15">>[i + 1]]

\* register_name over a table that leaves "rsp" out
register_name_norsp(index) ==
    <<"rax", "rcx", "rdx", "rbx", "rbp", "rsi", "rdi", "r8", "r9", "r10",
      "r11", "r12", "r13", "r14", "r15", "">>[index + 1]

\* GeneralRegisters::register_name(index)
register_name(index) == REGISTER_NAMES[index]

(***************************************************************************)
(* Indexed accessors: regs/accessors.rs                                    *)
(***************************************************************************)
\* the outcome of a call: a panic, or a return value
Panic      == [panic |-> TRUE, val |-> Zero64]
Return(v)  == [panic |-> FALSE, val |-> v]

\* get_reg_of_index with the commented-out arm `4 => self._unused_rsp` live
get_reg_of_index_rsp(self, index) ==
    IF index \in 0..15 THEN Return(self[FieldOrder[index + 1]]) ELSE Panic

\* GeneralRegisters::get_reg_of_index(&self, index)
get_reg_of_index(self, index) ==
    CASE index = 0  -> Return(self["rax"])
      [] index = 1  -> Return(self["rcx"])
      [] index = 2  -> Return(self["rdx"])
      [] index = 3  -> Return(self["rbx"])
      [] index = 5  -> Return(self["rbp"])
      [] index = 6  -> Return(self["rsi"])
      [] index = 7  -> Return(self["rdi"])
      [] index = 8  -> Return(self["r8"])
      [] index = 9  -> Return(self["r9"])
      [] index = 10 -> Return(self["r10"])
      [] index = 11 -> Return(self["r11"])
      [] index = 12 -> Return(self["r12"])
      [] index = 13 -> Return(self["r13"])
      [] index = 14 -> Return(self["r14"])
      [] index = 15 -> Return(self["r15"])
      [] OTHER      -> Panic

\* set_reg_of_index with the arms of 6 and 7 exchanged (rdi before rsi)
set_reg_of_index_swapped(self, index, value) ==
    IF index \in (0..15) \ {4}
    THEN LET f == CASE index = 6 -> "rdi"
                    [] index = 7 -> "rsi"
                    [] OTHER     -> FieldOrder[index + 1]
         IN  [panic |-> FALSE, self |-> [self EXCEPT ![f] = value]]
    ELSE [panic |-> TRUE, self |-> self]

\* GeneralRegisters::set_reg_of_index(&mut self, index, value): the panic, or
\* the structure after the call
set_reg_of_index(self, index, value) ==
    CASE index = 0  -> [panic |-> FALSE, self |-> [self EXCEPT !["rax"] = value]]
      [] index = 1  -> [panic |-> FALSE, self |-> [self EXCEPT !["rcx"] = value]]
      [] index = 2  -> [panic |-> FALSE, self |-> [self EXCEPT !["rdx"] = value]]
      [] index = 3  -> [panic |-> FALSE, self |-> [self EXCEPT !["rbx"] = value]]
      [] index = 5  -> [panic |-> FALSE, self |-> [self EXCEPT !["rbp"] = value]]
      [] index = 6  -> [panic |-> FALSE, self |-> [self EXCEPT !["rsi"] = value]]
      [] index = 7  -> [panic |-> FALSE, self |-> [self EXCEPT !["rdi"] = value]]
      [] index = 8  -> [panic |-> FALSE, self |-> [self EXCEPT !["r8"] = value]]
      [] index = 9  -> [panic |-> FALSE, self |-> [self EXCEPT !["r9"] = value]]
      [] index = 10 -> [panic |-> FALSE, self |-> [self EXCEPT !["r10"] = value]]
      [] index = 11 -> [panic |-> FALSE, self |-> [self EXCEPT !["r11"] = value]]
      [] index = 12 -> [panic |-> FALSE, self |-> [self EXCEPT !["r12"] = value]]
      [] index = 13 -> [panic |-> FALSE, self |-> [self EXCEPT !["r13"] = value]]
      [] index = 14 -> [panic |-> FALSE, self |-> [self EXCEPT !["r14"] = value]]
      [] index = 15 -> [panic |-> FALSE, self |-> [self EXCEPT !["r15"] = value]]
      [] OTHER      -> [panic |-> TRUE, self |-> self]

(***************************************************************************)
(* Sub-width accessors: define_reg_getter_setters! and its four tables     *)
(***************************************************************************)
\* one (name, from) row of a table, with the table's type width, bit range
\* and clear_other_bits
Row(name, from, bits, start, end, clear) ==
    [name |-> name, from |-> from, bits |-> bits, start |-> start,
     end |-> end, clear |-> clear]

\* the 32-bit table: u32, 32, clear_other_bits = true
Table32 ==
    { Row(p[1], p[2], 32, 0, 32, TRUE) : p \in
        { <<"eax", "rax">>, <<"ecx", "rcx">>, <<"edx", "rdx">>, <<"ebx", "rbx">>,
          <<"ebp", "rbp">>, <<"esi", "rsi">>, <<"edi", "rdi">>, <<"r8d", "r8">>,
          <<"r9d", "r9">>, <<"r10d", "r10">>, <<"r11d", "r11">>, <<"r12d", "r12">>,
          <<"r13d", "r13">>, <<"r14d", "r14">>, <<"r15d", "r15">> } }

\* the 16-bit table: u16, 16, clear_other_bits = false
Table16 ==
    { Row(p[1], p[2], 16, 0, 16, FALSE) : p \in
        { <<"ax", "rax">>, <<"cx", "rcx">>, <<"dx", "rdx">>, <<"bx", "rbx">>,
          <<"bp", "rbp">>, <<"si", "rsi">>, <<"di", "rdi">>, <<"r8w", "r8">>,
          <<"r9w", "r9">>, <<"r10w", "r10">>, <<"r11w", "r11">>, <<"r12w", "r12">>,
          <<"r13w", "r13">>, <<"r14w", "r14">>, <<"r15w", "r15">> } }

\* the low-byte table: u8, 8, clear_other_bits = false
Table8 ==
    { Row(p[1], p[2], 8, 0, 8, FALSE) : p \in
        { <<"al", "rax">>, <<"cl", "rcx">>, <<"dl", "rdx">>, <<"bl", "rbx">>,
          <<"bpl", "rbp">>, <<"sil", "rsi">>, <<"dil", "rdi">>, <<"r8b", "r8">>,
          <<"r9b", "r9">>, <<"r10b", "r10">>, <<"r11b", "r11">>, <<"r12b", "r12">>,
          <<"r13b", "r13">>, <<"r14b", "r14">>, <<"r15b", "r15">> } }

\* the high-byte table: u8, 8..16, clear_other_bits = false
Table8h ==
    { Row(p[1], p[2], 8, 8, 16, FALSE) : p \in
        { <<"ah", "rax">>, <<"ch", "rcx">>, <<"dh", "rdx">>, <<"bh", "rbx">> } }

Accessors == Table32 \cup Table16 \cup Table8 \cup Table8h

\* the row of the accessor called `name`
AccessorOf(name) == CHOOSE a \in Accessors : a.name = name

\* __impl_getter: fn $name(&self) -> $type
impl_getter(self, a) ==
    LET MASK   == Dec(Shl(One64, a.end - a.start))
        value0 == self[a.from]
        value1 == Shr(value0, a.start)
        value2 == And(value1, MASK)
    IN  AsType(value2, a.bits)

\* __impl_setter that never takes the clear_other_bits branch
impl_setter_keep(self, a, value) ==
    LET MASK == Shl(Dec(Shl(One64, a.end - a.start)), a.start)
        and0 == And(self[a.from], Not(MASK))
    IN  [self EXCEPT ![a.from] = Or(and0, Shl(AsU64(value), a.start))]

\* __impl_setter whose MASK is not shifted to $bits_start
impl_setter_mask0(self, a, value) ==
    IF a.clear
    THEN [self EXCEPT ![a.from] = Shl(AsU64(value), a.start)]
    ELSE LET MASK == Dec(Shl(One64, a.end - a.start))
             and0 == And(self[a.from], Not(MASK))
         IN  [self EXCEPT ![a.from] = Or(and0, Shl(AsU64(value), a.start))]

\* __impl_setter: fn set_$name(&mut self, value: $type)
impl_setter(self, a, value) ==
    IF a.clear
    THEN [self EXCEPT ![a.from] = Shl(AsU64(value), a.start)]
    ELSE LET MASK == Shl(Dec(Shl(One64, a.end - a.start)), a.start)
             and0 == And(self[a.from], Not(MASK))
         IN  [self EXCEPT ![a.from] = Or(and0, Shl(AsU64(value), a.start))]

\* GeneralRegisters::get_edx_eax(&self)
get_edx_eax(self) ==
    Or(Shl(AsU64(impl_getter(self, AccessorOf("edx"))), 32),
       AsU64(impl_getter(self, AccessorOf("eax"))))

(***************************************************************************)
(* Register diff: regs/diff.rs                                             *)
(***************************************************************************)
\* GeneralRegistersDiff::INDEX_RANGE = 0..16 and RSP_INDEX = 4
INDEX_RANGE_START == 0
INDEX_RANGE_END == 16
RSP_INDEX == 4

\* GeneralRegistersDiff::new(old, new)
GeneralRegistersDiff_new(old, new) == [old |-> old, new |-> new]

\* GeneralRegistersDiff::is_same(&self): the derived PartialEq of
\* GeneralRegisters compares every field of the structure
is_same(self) == self.old = self.new

\* the loop of <GeneralRegistersDiff as Debug>::fmt from index i on; `acc` are
\* the fields given to the DebugStruct so far
RECURSIVE fmt_from(_, _, _)
fmt_from(self, i, acc) ==
    IF i >= INDEX_RANGE_END THEN [panic |-> FALSE, fields |-> acc]
    ELSE IF i = RSP_INDEX THEN fmt_from(self, i + 1, acc)
    ELSE LET old == get_reg_of_index(self.old, i)
             new == get_reg_of_index(self.new, i)
         IN  IF old.panic \/ new.panic THEN [panic |-> TRUE, fields |-> acc]
             ELSE IF old.val # new.val
             THEN fmt_from(self, i + 1,
                    Append(acc, [name |-> register_name(i),
                                 old |-> old.val, new |-> new.val]))
             ELSE fmt_from(self, i + 1, acc)

\* <GeneralRegistersDiff as Debug>::fmt: the fields written, in order
fmt(self) == fmt_from(self, INDEX_RANGE_START, <<>>)

(***************************************************************************)
(* Inputs of the Register File operations                                  *)
(***************************************************************************)
\* calls made on one Register File in a run
MaxOps == 2
\* the illegal register indices tried are 4, 16..MaxIndex and the largest u8
MaxIndex == 16
U8_MAX == 255

\* A run works on one register through all of its accessors, as each test
\* generated by test_rw_on_reg! does: the rows of that macro's table.
TestRow(pos, reg, reg32, reg16, reg8, reg8h) ==
    [pos |-> pos, reg |-> reg, reg32 |-> reg32, reg16 |-> reg16,
     reg8 |-> reg8, reg8h |-> reg8h]

TestRows ==
    { TestRow(0, "rax", "eax", "ax", "al", "ah"),
      TestRow(1, "rcx", "ecx", "cx", "cl", "ch"),
      TestRow(2, "rdx", "edx", "dx", "dl", "dh"),
      TestRow(3, "rbx", "ebx", "bx", "bl", "bh"),
      TestRow(5, "rbp", "ebp", "bp", "bpl", ""),
      TestRow(6, "rsi", "esi", "si", "sil", ""),
      TestRow(7, "rdi", "edi", "di", "dil", ""),
      TestRow(8, "r8", "r8d", "r8w", "r8b", ""),
      TestRow(9, "r9", "r9d", "r9w", "r9b", ""),
      TestRow(10, "r10", "r10d", "r10w", "r10b", ""),
      TestRow(11, "r11", "r11d", "r11w", "r11b", ""),
      TestRow(12, "r12", "r12d", "r12w", "r12b", ""),
      TestRow(13, "r13", "r13d", "r13w", "r13b", ""),
      TestRow(14, "r14", "r14d", "r14w", "r14b", ""),
      TestRow(15, "r15", "r15d", "r15w", "r15b", "") }

\* the indices a run passes to the indexed accessors: its register's, the
\* reserved one, and some beyond the last
IndicesOf(r) == {r.pos, 4} \cup (16..MaxIndex) \cup {U8_MAX}

\* the sub-width accessors a run calls: those of its register
AccessorsOf(r) ==
    { a \in Accessors : a.name \in {r.reg32, r.reg16, r.reg8, r.reg8h} }

V_fedcba9876543210 == Hex64(<<\hfe, \hdc, \hba, \h98, \h76, \h54, \h32, \h10>>)
V_123456789abcdef0 == Hex64(<<\h12, \h34, \h56, \h78, \h9a, \hbc, \hde, \hf0>>)
V_a5a5a5a5a5a5a5a5 == Hex64(<<\ha5, \ha5, \ha5, \ha5, \ha5, \ha5, \ha5, \ha5>>)

\* the value written through a setter of each width
Vals64 == {V_123456789abcdef0}
Vals32 == {Hex32(<<\h9a, \hbc, \hde, \h01>>)}
Vals16 == {Hex16(<<\h56, \h78>>)}
Vals8  == {Hex8(\h34)}
ValsOf(a) ==
    CASE a.bits = 32 -> Vals32
      [] a.bits = 16 -> Vals16
      [] OTHER       -> Vals8

\* a Register File whose fifteen registers hold v and whose reserved slot
\* holds u: no operation writes that slot, so it keeps what its memory held
\* before (save_regs_to_stack! skips it with `sub rsp, 8`)
Image(v, u) == [f \in Fields |-> IF f = "_unused_rsp" THEN u ELSE v]

\* the Register Files a run starts from: a fresh one, and one loaded with
\* register values
InitRegs == { Default, Image(V_fedcba9876543210, V_a5a5a5a5a5a5a5a5) }
\* the earlier copy a run starts with: the same Register File, or one that
\* was loaded with register values over a zeroed reserved slot
InitSaved(r) == { r, Image(V_fedcba9876543210, Zero64) }

NoCall ==
    [op |-> "none", index |-> -1, view |-> "", value |-> Zero64,
     pre |-> <<>>, old |-> <<>>, panic |-> FALSE, ret |-> Zero64,
     fields |-> <<>>, same |-> FALSE]

(***************************************************************************)
(* Operations on the Register File                                         *)
(***************************************************************************)
RegCallEnabled == ~panicked /\ nops < MaxOps

\* regs.get_reg_of_index(index)
GetRegOfIndex ==
    /\ RegCallEnabled
    /\ \E index \in IndicesOf(row) :
        LET r == get_reg_of_index(regs, index)
        IN  /\ last' = [NoCall EXCEPT !.op = "get_reg_of_index", !.index = index,
                                      !.pre = regs, !.panic = r.panic,
                                      !.ret = r.val]
            /\ panicked' = r.panic
    /\ nops' = nops + 1
    /\ UNCHANGED <<row, regs, saved, vmxVars, frameVars, asmVars, vcpuVars>>

\* regs.set_reg_of_index(index, value)
SetRegOfIndex ==
    /\ RegCallEnabled
    /\ \E index \in IndicesOf(row), value \in Vals64 :
        LET r == set_reg_of_index(regs, index, value)
        IN  /\ regs' = r.self
            /\ last' = [NoCall EXCEPT !.op = "set_reg_of_index", !.index = index,
                                      !.value = value, !.pre = regs,
                                      !.panic = r.panic]
            /\ panicked' = r.panic
    /\ nops' = nops + 1
    /\ UNCHANGED <<row, saved, vmxVars, frameVars, asmVars, vcpuVars>>

\* regs.set_$name(value), with a value of the accessor's type
SetView ==
    /\ RegCallEnabled
    /\ \E a \in AccessorsOf(row) : \E value \in ValsOf(a) :
        /\ regs' = impl_setter(regs, a, value)
        /\ last' = [NoCall EXCEPT !.op = "set", !.view = a.name,
                                  !.value = value, !.pre = regs]
    /\ nops' = nops + 1
    /\ UNCHANGED <<row, saved, panicked, vmxVars, frameVars, asmVars, vcpuVars>>

\* regs.$name()
GetView ==
    /\ RegCallEnabled
    /\ \E a \in AccessorsOf(row) :
        last' = [NoCall EXCEPT !.op = "get", !.view = a.name, !.pre = regs,
                               !.value = impl_getter(regs, a)]
    /\ nops' = nops + 1
    /\ UNCHANGED <<row, regs, saved, panicked, vmxVars, frameVars, asmVars, vcpuVars>>

\* regs.get_edx_eax()
GetEdxEax ==
    /\ RegCallEnabled
    /\ last' = [NoCall EXCEPT !.op = "get_edx_eax", !.pre = regs,
                              !.ret = get_edx_eax(regs)]
    /\ nops' = nops + 1
    /\ UNCHANGED <<row, regs, saved, panicked, vmxVars, frameVars, asmVars, vcpuVars>>

\* let saved = regs;  (GeneralRegisters is Copy)
Snapshot ==
    /\ RegCallEnabled
    /\ saved' = regs
    /\ last' = [NoCall EXCEPT !.op = "snapshot", !.pre = regs, !.old = saved]
    /\ nops' = nops + 1
    /\ UNCHANGED <<row, regs, panicked, vmxVars, frameVars, asmVars, vcpuVars>>

\* format!("{:?}", GeneralRegistersDiff::new(saved, regs))
DiffFmt ==
    /\ RegCallEnabled
    /\ LET d == GeneralRegistersDiff_new(saved, regs)
           r == fmt(d)
       IN  /\ last' = [NoCall EXCEPT !.op = "diff_fmt", !.pre = regs,
                                     !.old = saved, !.panic = r.panic,
                                     !.fields = r.fields]
           /\ panicked' = r.panic
    /\ nops' = nops + 1
    /\ UNCHANGED <<row, regs, saved, vmxVars, frameVars, asmVars, vcpuVars>>

\* GeneralRegistersDiff::new(saved, regs).is_same()
DiffIsSame ==
    /\ RegCallEnabled
    /\ last' = [NoCall EXCEPT !.op = "is_same", !.pre = regs, !.old = saved,
                              !.same = is_same(GeneralRegistersDiff_new(saved, regs))]
    /\ nops' = nops + 1
    /\ UNCHANGED <<row, regs, saved, panicked, vmxVars, frameVars, asmVars, vcpuVars>>

(***************************************************************************)
(* VMX definitions: vmx/definitions.rs                                     *)
(***************************************************************************)
\* as_str whose arm of 15 also takes the unassigned code 14
as_str_nogap(code) ==
    CASE code = 0 -> "OK"
      [] code = 1 -> "VMCALL executed in VMX root operation"
      [] code = 2 -> "VMCLEAR with invalid physical address"
      [] code = 3 -> "VMCLEAR with VMXON pointer"
      [] code = 4 -> "VMLAUNCH with non-clear VMCS"
      [] code = 5 -> "VMRESUME with non-launched VMCS"
      [] code = 6 -> "VMRESUME after VMXOFF (VMXOFF and VMXON between VMLAUNCH and VMRESUME)"
      [] code = 7 -> "VM entry with invalid control field(s)"
      [] code = 8 -> "VM entry with invalid host-state field(s)"
      [] code = 9 -> "VMPTRLD with invalid physical address"
      [] code = 10 -> "VMPTRLD with VMXON pointer"
      [] code = 11 -> "VMPTRLD with incorrect VMCS revision identifier"
      [] code = 12 -> "VMREAD/VMWRITE from/to unsupported VMCS component"
      [] code = 13 -> "VMWRITE to read-only VMCS component"
      [] code \in {14, 15} -> "VMXON executed in VMX root operation"
      [] code = 16 -> "VM entry with invalid executive-VMCS pointer"
      [] code = 17 -> "VM entry with non-launched executive VMCS"
      [] code = 18 -> "VM entry with executive-VMCS pointer not VMXON pointer (when attempting to deactivate the dual-monitor treatment of SMIs and SMM)"
      [] code = 19 -> "VMCALL with non-clear VMCS (when attempting to activate the dual-monitor treatment of SMIs and SMM)"
      [] code = 20 -> "VMCALL with invalid VM-exit control fields"
      [] code = 22 -> "VMCALL with incorrect MSEG revision identifier (when attempting to activate the dual-monitor treatment of SMIs and SMM)"
      [] code = 23 -> "VMXOFF under dual-monitor treatment of SMIs and SMM"
      [] code = 24 -> "VMCALL with invalid SMM-monitor features (when attempting to activate the dual-monitor treatment of SMIs and SMM)"
      [] code = 25 -> "VM entry with invalid VM-execution control fields in executive VMCS (when attempting to return from SMM)"
      [] code = 26 -> "VM entry with events blocked by MOV SS"
      [] code = 28 -> "Invalid operand to INVEPT/INVVPID"
      [] OTHER -> "[INVALID]"

\* VmxInstructionError(code).as_str()
as_str(code) ==
    CASE code = 0 -> "OK"
      [] code = 1 -> "VMCALL executed in VMX root operation"
      [] code = 2 -> "VMCLEAR with invalid physical address"
      [] code = 3 -> "VMCLEAR with VMXON pointer"
      [] code = 4 -> "VMLAUNCH with non-clear VMCS"
      [] code = 5 -> "VMRESUME with non-launched VMCS"
      [] code = 6 -> "VMRESUME after VMXOFF (VMXOFF and VMXON between VMLAUNCH and VMRESUME)"
      [] code = 7 -> "VM entry with invalid control field(s)"
      [] code = 8 -> "VM entry with invalid host-state field(s)"
      [] code = 9 -> "VMPTRLD with invalid physical address"
      [] code = 10 -> "VMPTRLD with VMXON pointer"
      [] code = 11 -> "VMPTRLD with incorrect VMCS revision identifier"
      [] code = 12 -> "VMREAD/VMWRITE from/to unsupported VMCS component"
      [] code = 13 -> "VMWRITE to read-only VMCS component"
      [] code = 15 -> "VMXON executed in VMX root operation"
      [] code = 16 -> "VM entry with invalid executive-VMCS pointer"
      [] code = 17 -> "VM entry with non-launched executive VMCS"
      [] code = 18 -> "VM entry with executive-VMCS pointer not VMXON pointer (when attempting to deactivate the dual-monitor treatment of SMIs and SMM)"
      [] code = 19 -> "VMCALL with non-clear VMCS (when attempting to activate the dual-monitor treatment of SMIs and SMM)"
      [] code = 20 -> "VMCALL with invalid VM-exit control fields"
      [] code = 22 -> "VMCALL with incorrect MSEG revision identifier (when attempting to activate the dual-monitor treatment of SMIs and SMM)"
      [] code = 23 -> "VMXOFF under dual-monitor treatment of SMIs and SMM"
      [] code = 24 -> "VMCALL with invalid SMM-monitor features (when attempting to activate the dual-monitor treatment of SMIs and SMM)"
      [] code = 25 -> "VM entry with invalid VM-execution control fields in executive VMCS (when attempting to return from SMM)"
      [] code = 26 -> "VM entry with events blocked by MOV SS"
      [] code = 28 -> "Invalid operand to INVEPT/INVVPID"
      [] OTHER -> "[INVALID]"

\* enum VmxExitReason: every variant with its discriminant, in source order
VmxExitReason ==
    <<
      <<"EXCEPTION_NMI", 0>>, <<"EXTERNAL_INTERRUPT", 1>>,
      <<"TRIPLE_FAULT", 2>>, <<"INIT", 3>>, <<"SIPI", 4>>, <<"SMI", 5>>,
      <<"OTHER_SMI", 6>>, <<"INTERRUPT_WINDOW", 7>>, <<"NMI_WINDOW", 8>>,
      <<"TASK_SWITCH", 9>>, <<"CPUID", 10>>, <<"GETSEC", 11>>, <<"HLT", 12>>,
      <<"INVD", 13>>, <<"INVLPG", 14>>, <<"RDPMC", 15>>, <<"RDTSC", 16>>,
      <<"RSM", 17>>, <<"VMCALL", 18>>, <<"VMCLEAR", 19>>, <<"VMLAUNCH", 20>>,
      <<"VMPTRLD", 21>>, <<"VMPTRST", 22>>, <<"VMREAD", 23>>,
      <<"VMRESUME", 24>>, <<"VMWRITE", 25>>, <<"VMOFF", 26>>, <<"VMON", 27>>,
      <<"CR_ACCESS", 28>>, <<"DR_ACCESS", 29>>, <<"IO_INSTRUCTION", 30>>,
      <<"MSR_READ", 31>>, <<"MSR_WRITE", 32>>, <<"INVALID_GUEST_STATE", 33>>,
      <<"MSR_LOAD_FAIL", 34>>, <<"MWAIT_INSTRUCTION", 36>>,
      <<"MONITOR_TRAP_FLAG", 37>>, <<"MONITOR_INSTRUCTION", 39>>,
      <<"PAUSE_INSTRUCTION", 40>>, <<"MCE_DURING_VMENTRY", 41>>,
      <<"TPR_BELOW_THRESHOLD", 43>>, <<"APIC_ACCESS", 44>>,
      <<"VIRTUALIZED_EOI", 45>>, <<"GDTR_IDTR", 46>>, <<"LDTR_TR", 47>>,
      <<"EPT_VIOLATION", 48>>, <<"EPT_MISCONFIG", 49>>, <<"INVEPT", 50>>,
      <<"RDTSCP", 51>>, <<"PREEMPTION_TIMER", 52>>, <<"INVVPID", 53>>,
      <<"WBINVD", 54>>, <<"XSETBV", 55>>, <<"APIC_WRITE", 56>>,
      <<"RDRAND", 57>>, <<"INVPCID", 58>>, <<"VMFUNC", 59>>, <<"ENCLS", 60>>,
      <<"RDSEED", 61>>, <<"PML_FULL", 62>>, <<"XSAVES", 63>>,
      <<"XRSTORS", 64>>, <<"PCONFIG", 65>>, <<"SPP_EVENT", 66>>,
      <<"UMWAIT", 67>>, <<"TPAUSE", 68>>, <<"LOADIWKEY", 69>>
    >>

\* `reason as u32`: the discriminant of a variant
ExitReasonAsU32(variant) ==
    LET k == CHOOSE k \in DOMAIN VmxExitReason : VmxExitReason[k][1] = variant
    IN  VmxExitReason[k][2]

\* try_from that falls back to the first variant for an unlisted value
ExitReasonTryFrom_default(value) ==
    IF \E k \in DOMAIN VmxExitReason : VmxExitReason[k][2] = value
    THEN LET k == CHOOSE k \in DOMAIN VmxExitReason : VmxExitReason[k][2] = value
         IN  [ok |-> TRUE, variant |-> VmxExitReason[k][1], err |-> 0]
    ELSE [ok |-> TRUE, variant |-> VmxExitReason[1][1], err |-> 0]

\* VmxExitReason::try_from(value), as numeric_enum! generates it: Ok(variant)
\* for a listed discriminant, Err(value) for any other
ExitReasonTryFrom(value) ==
    IF \E k \in DOMAIN VmxExitReason : VmxExitReason[k][2] = value
    THEN LET k == CHOOSE k \in DOMAIN VmxExitReason : VmxExitReason[k][2] = value
         IN  [ok |-> TRUE, variant |-> VmxExitReason[k][1], err |-> 0]
    ELSE [ok |-> FALSE, variant |-> "", err |-> value]

\* enum VmxInterruptionType: every variant with its discriminant
VmxInterruptionType ==
    << <<"External", 0>>, <<"Reserved", 1>>, <<"NMI", 2>>, <<"HardException", 3>>,
       <<"SoftIntr", 4>>, <<"PrivSoftException", 5>>, <<"SoftException", 6>>,
       <<"Other", 7>> >>

\* the vectors of x86::irq that the two functions below name
DEBUG_VECTOR == 1
NONMASKABLE_INTERRUPT_VECTOR == 2
BREAKPOINT_VECTOR == 3
OVERFLOW_VECTOR == 4
DOUBLE_FAULT_VECTOR == 8
INVALID_TSS_VECTOR == 10
SEGMENT_NOT_PRESENT_VECTOR == 11
STACK_SEGEMENT_FAULT_VECTOR == 12
GENERAL_PROTECTION_FAULT_VECTOR == 13
PAGE_FAULT_VECTOR == 14
ALIGNMENT_CHECK_VECTOR == 17
VIRTUALIZATION_VECTOR == 20

\* vector_has_error_code without the alignment-check vector
vector_has_error_code_noac(vector) ==
    vector \in { DOUBLE_FAULT_VECTOR, INVALID_TSS_VECTOR,
                 SEGMENT_NOT_PRESENT_VECTOR, STACK_SEGEMENT_FAULT_VECTOR,
                 GENERAL_PROTECTION_FAULT_VECTOR, PAGE_FAULT_VECTOR }

\* VmxInterruptionType::vector_has_error_code(vector)
vector_has_error_code(vector) ==
    vector \in { DOUBLE_FAULT_VECTOR, INVALID_TSS_VECTOR,
                 SEGMENT_NOT_PRESENT_VECTOR, STACK_SEGEMENT_FAULT_VECTOR,
                 GENERAL_PROTECTION_FAULT_VECTOR, PAGE_FAULT_VECTOR,
                 ALIGNMENT_CHECK_VECTOR }

\* VmxInterruptionType::from_vector(vector): the arms are tried in order
from_vector(vector) ==
    IF vector = DEBUG_VECTOR THEN "PrivSoftException"
    ELSE IF vector = NONMASKABLE_INTERRUPT_VECTOR THEN "NMI"
    ELSE IF vector \in {BREAKPOINT_VECTOR, OVERFLOW_VECTOR} THEN "SoftException"
    ELSE IF vector \in 0..VIRTUALIZATION_VECTOR THEN "HardException"
    ELSE IF vector \in 32..255 THEN "External"
    ELSE "Other"

\* VmxInterruptionType::is_soft(&self)
is_soft(self) == self \in {"SoftIntr", "SoftException", "PrivSoftException"}

(***************************************************************************)
(* Calls of the VMX definitions                                            *)
(***************************************************************************)
\* raw u32 codes tried are 0..MaxCode and two large ones
MaxCode == 72
Codes == (0..MaxCode) \cup {65535, 2147483647}
Vectors == 0..U8_MAX

NoVmxCall ==
    [fn |-> "none", arg |-> 0, ty |-> "", flag |-> FALSE, ok |-> FALSE,
     variant |-> "", err |-> 0, str |-> ""]

CallFromVector ==
    /\ vmx.fn = "none"
    /\ \E vector \in Vectors :
        vmx' = [NoVmxCall EXCEPT !.fn = "from_vector", !.arg = vector,
                                 !.ty = from_vector(vector)]
    /\ UNCHANGED <<regVars, panicked, frameVars, asmVars, vcpuVars>>

CallVectorHasErrorCode ==
    /\ vmx.fn = "none"
    /\ \E vector \in Vectors :
        vmx' = [NoVmxCall EXCEPT !.fn = "vector_has_error_code", !.arg = vector,
                                 !.flag = vector_has_error_code(vector)]
    /\ UNCHANGED <<regVars, panicked, frameVars, asmVars, vcpuVars>>

CallIsSoft ==
    /\ vmx.fn = "from_vector"
    /\ vmx' = [NoVmxCall EXCEPT !.fn = "is_soft", !.arg = vmx.arg, !.ty = vmx.ty,
                                !.flag = is_soft(vmx.ty)]
    /\ UNCHANGED <<regVars, panicked, frameVars, asmVars, vcpuVars>>

CallExitReasonTryFrom ==
    /\ vmx.fn = "none"
    /\ \E value \in Codes :
        LET r == ExitReasonTryFrom(value)
        IN  vmx' = [NoVmxCall EXCEPT !.fn = "try_from", !.arg = value,
                                     !.ok = r.ok, !.variant = r.variant,
                                     !.err = r.err]
    /\ UNCHANGED <<regVars, panicked, frameVars, asmVars, vcpuVars>>

CallAsStr ==
    /\ vmx.fn = "none"
    /\ \E code \in Codes :
        vmx' = [NoVmxCall EXCEPT !.fn = "as_str", !.arg = code,
                                 !.str = as_str(code)]
    /\ UNCHANGED <<regVars, panicked, frameVars, asmVars, vcpuVars>>

\* the caller has taken the result and goes on to its next call
VmxReturn ==
    /\ vmx.fn # "none"
    /\ vmx' = NoVmxCall
    /\ UNCHANGED <<regVars, panicked, frameVars, asmVars, vcpuVars>>

(***************************************************************************)
(* Physical frames: frame.rs                                               *)
(***************************************************************************)
\* memory_addr::PAGE_SIZE_4K
PAGE_SIZE == 4096

\* pages of physical memory the host manages, and PhysFrame objects and
\* PhysFrame calls of a run
NumPages == 3
MaxFrames == 2
MaxFrameOps == 4

\* the page-aligned physical addresses of the host's pool; the first is the
\* null physical address
PagePool == { k * PAGE_SIZE : k \in 0..(NumPages - 1) }
MemSize  == NumPages * PAGE_SIZE

\* Option<HostPhysAddr>
None       == [some |-> FALSE, addr |-> 0]
Some(addr) == [some |-> TRUE, addr |-> addr]

\* struct PhysFrame { start_paddr }
PhysFrame(start_paddr) == [start_paddr |-> start_paddr]

\* PhysFrameIf::phys_to_virt of the host: its direct map of physical memory
HostVirtBase == 16 * PAGE_SIZE
phys_to_virt(paddr) == HostVirtBase + paddr

\* Memory, addressed as the host maps it, is piecewise constant: a set of
\* disjoint segments [lo, hi) that each hold one byte value.
ByteAt(m, a) == (CHOOSE seg \in m : seg.lo <= a /\ a < seg.hi).byte

\* core::ptr::write_bytes(dst, byte, count): bytes dst .. dst+count-1 are set
write_bytes(m, dst, byte, count) ==
    LET end   == dst + count
        below == { [seg EXCEPT !.hi = IF seg.hi > dst THEN dst ELSE seg.hi] :
                       seg \in { x \in m : x.lo < dst } }
        above == { [seg EXCEPT !.lo = IF seg.lo < end THEN end ELSE seg.lo] :
                       seg \in { x \in m : x.hi > end } }
    IN  IF count = 0 THEN m
        ELSE below \cup above \cup { [lo |-> dst, hi |-> end, byte |-> byte] }

\* a call of the host's PhysFrameIf, as recorded in hostLog; `frame` is the
\* PhysFrame object the call was made for
HostCall(fn, addr, frame) == [fn |-> fn, addr |-> addr, frame |-> frame]

\* alloc without its assert_ne!: the null address makes a frame like any other
alloc_noassert(r) ==
    IF ~r.some
    THEN [panic |-> FALSE, ok |-> FALSE, err |-> "NoMemory", frame |-> PhysFrame(None)]
    ELSE [panic |-> FALSE, ok |-> TRUE, err |-> "", frame |-> PhysFrame(Some(r.addr))]

\* PhysFrame::alloc(), given the host's answer `r` to alloc_frame()
alloc(r) ==
    IF ~r.some
    THEN [panic |-> FALSE, ok |-> FALSE, err |-> "NoMemory", frame |-> PhysFrame(None)]
    ELSE IF r.addr = 0
    THEN [panic |-> TRUE, ok |-> FALSE, err |-> "", frame |-> PhysFrame(None)]
    ELSE [panic |-> FALSE, ok |-> TRUE, err |-> "", frame |-> PhysFrame(Some(r.addr))]

\* PhysFrame::uninit()
uninit == PhysFrame(None)

\* start_paddr that answers the null address for a placeholder
\* (unwrap_or_default in place of expect)
start_paddr_or_default(self) ==
    [panic |-> FALSE, val |-> self.start_paddr.addr]

\* PhysFrame::start_paddr(&self)
start_paddr(self) ==
    IF self.start_paddr.some
    THEN [panic |-> FALSE, val |-> self.start_paddr.addr]
    ELSE [panic |-> TRUE, val |-> 0]

\* PhysFrame::as_mut_ptr(&self): the pointer, and the host calls made
as_mut_ptr(self, id) ==
    LET p == start_paddr(self)
    IN  IF p.panic THEN [panic |-> TRUE, val |-> 0, calls |-> <<>>]
        ELSE [panic |-> FALSE, val |-> phys_to_virt(p.val),
              calls |-> <<HostCall("phys_to_virt", p.val, id)>>]

\* fill that writes through the physical address itself, the translation
\* the host gave being dropped
fill_untranslated(self, id, byte, m) ==
    LET p == as_mut_ptr(self, id)
    IN  IF p.panic THEN [panic |-> TRUE, mem |-> m, calls |-> p.calls]
        ELSE [panic |-> FALSE,
              mem |-> write_bytes(m, self.start_paddr.addr, byte, PAGE_SIZE),
              calls |-> p.calls]

\* PhysFrame::fill(&mut self, byte): the memory after, and the host calls made
fill(self, id, byte, m) ==
    LET p == as_mut_ptr(self, id)
    IN  IF p.panic THEN [panic |-> TRUE, mem |-> m, calls |-> p.calls]
        ELSE [panic |-> FALSE, mem |-> write_bytes(m, p.val, byte, PAGE_SIZE),
              calls |-> p.calls]

\* drop that frees whatever address the frame holds, placeholder or not
drop_unconditional(self, id) ==
    <<HostCall("dealloc_frame", self.start_paddr.addr, id)>>

\* <PhysFrame as Drop>::drop(&mut self): the host calls made
drop(self, id) ==
    IF self.start_paddr.some
    THEN <<HostCall("dealloc_frame", self.start_paddr.addr, id)>>
    ELSE <<>>

(***************************************************************************)
(* The host and the operations on physical frames                          *)
(***************************************************************************)
\* what the host's alloc_frame() may answer: None, or a page not handed out
AllocFrameAnswers == {None} \cup { Some(p) : p \in PagePool \ hostAlloc }

\* the pages in the host's hands after the calls `calls`
RECURSIVE HostAfter(_, _)
HostAfter(alloc0, calls) ==
    IF calls = <<>> THEN alloc0
    ELSE LET c == Head(calls)
         IN  HostAfter(
                CASE c.fn = "alloc_frame" /\ c.addr >= 0 -> alloc0 \cup {c.addr}
                  [] c.fn = "dealloc_frame" -> alloc0 \ {c.addr}
                  [] OTHER -> alloc0,
                Tail(calls))

\* bytes written by fill in a run
FillBytes == {\hff}
\* what memory may hold before it is first written
GarbageBytes == {\h00, \hcc}

NoFrameCall ==
    [op |-> "none", frame |-> 0, obj |-> PhysFrame(None), byte |-> 0,
     panic |-> FALSE, ok |-> FALSE, err |-> "", ret |-> 0, calls |-> <<>>,
     preMem |-> {}]

FrameCallEnabled == ~panicked /\ fops < MaxFrameOps

\* the effects every PhysFrame operation has in common: the host calls it
\* made are logged and the host's allocator follows them
FrameEffects(call) ==
    /\ flast' = [call EXCEPT !.preMem = mem]
    /\ hostLog' = hostLog \o call.calls
    /\ hostAlloc' = HostAfter(hostAlloc, call.calls)
    /\ panicked' = call.panic
    /\ fops' = fops + 1
    /\ UNCHANGED <<regVars, vmxVars, asmVars, vcpuVars>>

\* let f = PhysFrame::alloc();
FrameAlloc ==
    /\ FrameCallEnabled
    /\ nframes < MaxFrames
    /\ \E r \in AllocFrameAnswers :
        LET id == nframes + 1
            a  == alloc(r)
        IN  /\ frames' = IF a.ok THEN frames @@ (id :> a.frame) ELSE frames
            /\ nframes' = IF a.ok THEN id ELSE nframes
            /\ FrameEffects([NoFrameCall EXCEPT
                    !.op = "alloc", !.frame = id, !.obj = a.frame,
                    !.panic = a.panic, !.ok = a.ok, !.err = a.err,
                    !.calls = <<HostCall("alloc_frame",
                                         IF r.some THEN r.addr ELSE -1, id)>>])
    /\ UNCHANGED mem

\* let f = PhysFrame::alloc_zero();
FrameAllocZero ==
    /\ FrameCallEnabled
    /\ nframes < MaxFrames
    /\ \E r \in AllocFrameAnswers :
        LET id == nframes + 1
            a  == alloc(r)
            f  == fill(a.frame, id, 0, mem)
            asked == <<HostCall("alloc_frame", IF r.some THEN r.addr ELSE -1, id)>>
        IN  /\ frames' = IF a.ok /\ ~f.panic THEN frames @@ (id :> a.frame) ELSE frames
            /\ nframes' = IF a.ok /\ ~f.panic THEN id ELSE nframes
            /\ mem' = IF a.ok THEN f.mem ELSE mem
            /\ FrameEffects([NoFrameCall EXCEPT
                    !.op = "alloc_zero", !.frame = id, !.obj = a.frame,
                    !.panic = a.panic \/ (a.ok /\ f.panic),
                    !.ok = a.ok /\ ~f.panic, !.err = a.err,
                    !.calls = IF a.ok THEN asked \o f.calls ELSE asked])

\* let f = unsafe { PhysFrame::uninit() };
FrameUninit ==
    /\ FrameCallEnabled
    /\ nframes < MaxFrames
    /\ LET id == nframes + 1
       IN  /\ frames' = frames @@ (id :> uninit)
           /\ nframes' = id
           /\ FrameEffects([NoFrameCall EXCEPT
                    !.op = "uninit", !.frame = id, !.obj = uninit, !.ok = TRUE])
    /\ UNCHANGED mem

\* f.start_paddr()
FrameStartPaddr ==
    /\ FrameCallEnabled
    /\ \E id \in DOMAIN frames :
        LET r == start_paddr(frames[id])
        IN  FrameEffects([NoFrameCall EXCEPT
                !.op = "start_paddr", !.frame = id, !.obj = frames[id],
                !.panic = r.panic, !.ok = ~r.panic, !.ret = r.val])
    /\ UNCHANGED <<frames, nframes, mem>>

\* f.as_mut_ptr()
FrameAsMutPtr ==
    /\ FrameCallEnabled
    /\ \E id \in DOMAIN frames :
        LET r == as_mut_ptr(frames[id], id)
        IN  FrameEffects([NoFrameCall EXCEPT
                !.op = "as_mut_ptr", !.frame = id, !.obj = frames[id],
                !.panic = r.panic, !.ok = ~r.panic, !.ret = r.val,
                !.calls = r.calls])
    /\ UNCHANGED <<frames, nframes, mem>>

\* f.fill(byte)
FrameFill ==
    /\ FrameCallEnabled
    /\ \E id \in DOMAIN frames, byte \in FillBytes :
        LET r == fill(frames[id], id, byte, mem)
        IN  /\ mem' = r.mem
            /\ FrameEffects([NoFrameCall EXCEPT
                    !.op = "fill", !.frame = id, !.obj = frames[id],
                    !.byte = byte, !.panic = r.panic, !.ok = ~r.panic,
                    !.calls = r.calls])
    /\ UNCHANGED <<frames, nframes>>

\* drop(f)
FrameDrop ==
    /\ FrameCallEnabled
    /\ \E id \in DOMAIN frames :
        /\ frames' = [k \in DOMAIN frames \ {id} |-> frames[k]]
        /\ FrameEffects([NoFrameCall EXCEPT
                !.op = "drop", !.frame = id, !.obj = frames[id], !.ok = TRUE,
                !.calls = drop(frames[id], id)])
    /\ UNCHANGED <<nframes, mem>>

(***************************************************************************)
(* The register save area on the stack: save_regs_to_stack! and            *)
(* restore_regs_from_stack! (regs/mod.rs)                                  *)
(***************************************************************************)
\* 8-byte words of stack modelled
StackWords == 20
\* bytes of a stack slot
WORD == 8

\* the addresses of the stack's words
StackAddrs == { WORD * k : k \in 0..(StackWords - 1) }

Push(reg)  == [op |-> "push", reg |-> reg, imm |-> 0]
Pop(reg)   == [op |-> "pop", reg |-> reg, imm |-> 0]
SubRsp(n)  == [op |-> "sub", reg |-> "rsp", imm |-> n]
AddRsp(n)  == [op |-> "add", reg |-> "rsp", imm |-> n]

\* save_regs_to_stack! with the reserved slot left out: no `sub rsp, 8`
save_regs_to_stack_nogap ==
    << Push("r15"), Push("r14"), Push("r13"), Push("r12"), Push("r11"),
       Push("r10"), Push("r9"), Push("r8"), Push("rdi"), Push("rsi"),
       Push("rbp"), Push("rbx"), Push("rdx"), Push("rcx"), Push("rax") >>

\* save_regs_to_stack!
save_regs_to_stack ==
    << Push("r15"), Push("r14"), Push("r13"), Push("r12"), Push("r11"),
       Push("r10"), Push("r9"), Push("r8"), Push("rdi"), Push("rsi"),
       Push("rbp"), SubRsp(8), Push("rbx"), Push("rdx"), Push("rcx"),
       Push("rax") >>

\* restore_regs_from_stack!
restore_regs_from_stack ==
    << Pop("rax"), Pop("rcx"), Pop("rdx"), Pop("rbx"), AddRsp(8),
       Pop("rbp"), Pop("rsi"), Pop("rdi"), Pop("r8"), Pop("r9"), Pop("r10"),
       Pop("r11"), Pop("r12"), Pop("r13"), Pop("r14"), Pop("r15") >>

\* the fifteen registers the two macros name
AsmRegs == Fields \ {"_unused_rsp"}

\* one instruction, executed on processor and stack `a`
Exec(a, ins) ==
    CASE ins.op = "push" ->
            [a EXCEPT !.rsp = a.rsp - WORD,
                      !.stack = [a.stack EXCEPT ![a.rsp - WORD] = a.cpu[ins.reg]],
                      !.writes = a.writes \cup {a.rsp - WORD}]
      [] ins.op = "pop" ->
            [a EXCEPT !.cpu = [a.cpu EXCEPT ![ins.reg] = a.stack[a.rsp]],
                      !.rsp = a.rsp + WORD,
                      !.reads = a.reads \cup {a.rsp}]
      [] ins.op = "sub" -> [a EXCEPT !.rsp = a.rsp - ins.imm]
      [] ins.op = "add" -> [a EXCEPT !.rsp = a.rsp + ins.imm]

\* the GeneralRegisters a pointer to address p reads (#[repr(C)]: the fields
\* lie in declaration order, 8 bytes each)
StructAt(stack, p) ==
    [f \in Fields |->
        stack[p + WORD * ((CHOOSE k \in DOMAIN FieldOrder : FieldOrder[k] = f) - 1)]]

\* the stack after the GeneralRegisters `g` is stored at address p
StoreStruct(stack, p, g) ==
    [a \in DOMAIN stack |->
        IF \E k \in DOMAIN FieldOrder : a = p + WORD * (k - 1)
        THEN g[FieldOrder[CHOOSE k \in DOMAIN FieldOrder : a = p + WORD * (k - 1)]]
        ELSE stack[a]]

\* register contents: each register holds a value of its own
RegValue(seed, f) ==
    LET k == CHOOSE i \in DOMAIN FieldOrder : FieldOrder[i] = f
    IN  [b \in 0..7 |-> (seed + 16 * k + b) % 256]

\* the register contents a run starts with, and those the guest leaves
HostSeeds  == {1, 3}
GuestSeeds == {2}
\* where the stack pointer is before the save
StackTops == { WORD * (StackWords - 2), WORD * StackWords }
\* what the stack's words hold before the save
StackGarbage == { Zero64, V_a5a5a5a5a5a5a5a5 }

AsmIdle ==
    asm = [phase |-> "off", pc |-> 0, rsp |-> 0, cpu |-> <<>>, stack |-> <<>>,
           rsp0 |-> 0, cpu0 |-> <<>>, garbage |-> Zero64, saved |-> <<>>,
           writes |-> {}, reads |-> {}]

InitAsm ==
    \E seed \in HostSeeds, top \in StackTops, g \in StackGarbage :
        asm = [phase |-> "save", pc |-> 1, rsp |-> top,
               cpu |-> [f \in AsmRegs |-> RegValue(seed, f)],
               stack |-> [a \in StackAddrs |-> g],
               rsp0 |-> top,
               cpu0 |-> [f \in AsmRegs |-> RegValue(seed, f)],
               garbage |-> g, saved |-> <<>>, writes |-> {}, reads |-> {}]

\* the next instruction of save_regs_to_stack!
AsmSave ==
    /\ asm.phase = "save"
    /\ LET a == Exec(asm, save_regs_to_stack[asm.pc])
       IN  asm' = IF asm.pc < Len(save_regs_to_stack)
                  THEN [a EXCEPT !.pc = asm.pc + 1]
                  ELSE [a EXCEPT !.phase = "saved", !.pc = 0,
                                 !.saved = StructAt(a.stack, a.rsp)]
    /\ UNCHANGED <<regVars, panicked, vmxVars, frameVars, vcpuVars>>

\* code between the two macros overwrites the registers
AsmClobber ==
    /\ asm.phase = "saved"
    /\ \E seed \in GuestSeeds :
        asm' = [asm EXCEPT !.phase = "clobbered",
                           !.cpu = [f \in AsmRegs |-> RegValue(seed, f)]]
    /\ UNCHANGED <<regVars, panicked, vmxVars, frameVars, vcpuVars>>

\* code between the two macros writes a register of the saved
\* GeneralRegisters through set_reg_of_index
AsmSetReg ==
    /\ asm.phase \in {"saved", "clobbered"}
    /\ \E index \in {0, 5, 15} :
        LET g == set_reg_of_index(StructAt(asm.stack, asm.rsp), index,
                                  V_123456789abcdef0).self
        IN  asm' = [asm EXCEPT !.phase = "restore", !.pc = 1,
                               !.stack = StoreStruct(asm.stack, asm.rsp, g),
                               !.saved = g]
    /\ UNCHANGED <<regVars, panicked, vmxVars, frameVars, vcpuVars>>

\* restore_regs_from_stack! begins on the stack as the save left it
AsmBeginRestore ==
    /\ asm.phase \in {"saved", "clobbered"}
    /\ asm' = [asm EXCEPT !.phase = "restore", !.pc = 1]
    /\ UNCHANGED <<regVars, panicked, vmxVars, frameVars, vcpuVars>>

\* the next instruction of restore_regs_from_stack!
AsmRestore ==
    /\ asm.phase = "restore"
    /\ LET a == Exec(asm, restore_regs_from_stack[asm.pc])
       IN  asm' = IF asm.pc < Len(restore_regs_from_stack)
                  THEN [a EXCEPT !.pc = asm.pc + 1]
                  ELSE [a EXCEPT !.phase = "restored", !.pc = 0]
    /\ UNCHANGED <<regVars, panicked, vmxVars, frameVars, vcpuVars>>

(***************************************************************************)
(* The VMX layer: per-core virtualization state, Control Blocks and the    *)
(* entry into the guest.  Of this layer the crate's sources here hold      *)
(* as_axerr (vmx/mod.rs) and the instruction-error table                   *)
(* (vmx/definitions.rs); the operations are modelled after sections 3,     *)
(* 4.4, 4.5 and 7 of the specification.                                    *)
(***************************************************************************)
\* logical cores, Control Blocks, and operations of a run
NumCores == 2
NumBlocks == 2
MaxVcpuOps == 3

Cores  == 1..NumCores
Blocks == 1..NumBlocks

\* x86::vmx::VmFail
VmFail == {"VmFailValid", "VmFailInvalid"}

\* vmcs::instruction_error(): the VM-instruction error field of the Control
\* Block current on core c
instruction_error(v, c) ==
    v.errField[CHOOSE b \in Blocks : <<c, b>> \in v.current]

\* as_axerr with the messages of its two arms exchanged
as_axerr_swapped(err, insn_error) ==
    CASE err = "VmFailValid" ->
            [kind |-> "BadState", msg |-> "VMCS pointer is not valid"]
      [] err = "VmFailInvalid" ->
            [kind |-> "BadState", msg |-> as_str(insn_error)]

\* as_axerr(err), where insn_error is what vmcs::instruction_error() reads
as_axerr(err, insn_error) ==
    CASE err = "VmFailValid" ->
            [kind |-> "BadState", msg |-> as_str(insn_error)]
      [] err = "VmFailInvalid" ->
            [kind |-> "BadState", msg |-> "VMCS pointer is not valid"]

\* the instruction succeeds and leaves the layer in state v
VMsucceed(v) == [abort |-> FALSE, flags |-> "Ok", v |-> v]

\* the instruction fails on core c with error number `code`: the number is
\* recorded in the Control Block current on c, if there is one (the `valid'
\* failure); without one no detail is recorded (the `invalid' failure)
VMfail(v, c, code) ==
    IF \E b \in Blocks : <<c, b>> \in v.current
    THEN [abort |-> FALSE, flags |-> "VmFailValid",
          v |-> [v EXCEPT !.errField[CHOOSE b \in Blocks : <<c, b>> \in v.current] = code]]
    ELSE [abort |-> FALSE, flags |-> "VmFailInvalid", v |-> v]

\* an ordering violation by the caller: the operation is aborted
Fatal(v) == [abort |-> TRUE, flags |-> "Ok", v |-> v]

\* enable virtualization on core c; `bad`: the hardware rejects the region
enable(v, c, bad) ==
    IF v.enabled[c] THEN VMfail(v, c, 15)
    ELSE IF bad THEN VMfail(v, c, 0)
    ELSE VMsucceed([v EXCEPT !.enabled[c] = TRUE])

\* disable virtualization on core c
disable(v, c) ==
    IF ~v.enabled[c] \/ (\E b \in Blocks : <<c, b>> \in v.current) THEN Fatal(v)
    ELSE VMsucceed([v EXCEPT !.enabled[c] = FALSE])

\* clear Control Block b, from core c; `bad`: the hardware rejects the address
clear(v, c, b, bad) ==
    IF ~v.enabled[c] THEN Fatal(v)
    ELSE IF bad THEN VMfail(v, c, 2)
    ELSE VMsucceed([v EXCEPT !.current = { p \in v.current : p[2] # b },
                             !.launched = v.launched \ {b}])

\* load that takes no notice of what is current on the calling core and
\* of where the block is current
load_unchecked(v, c, b, code) ==
    IF ~v.enabled[c] THEN Fatal(v)
    ELSE IF ~v.revOk[b] THEN VMfail(v, c, 11)
    ELSE VMsucceed([v EXCEPT !.current = v.current \cup {<<c, b>>}])

\* load Control Block b on core c; `code` is the error number the hardware
\* gives when another block is still current
load(v, c, b, code) ==
    IF ~v.enabled[c] THEN Fatal(v)
    ELSE IF \E c2 \in Cores \ {c} : <<c2, b>> \in v.current THEN Fatal(v)
    ELSE IF \E b2 \in Blocks \ {b} : <<c, b2>> \in v.current THEN VMfail(v, c, code)
    ELSE IF ~v.revOk[b] THEN VMfail(v, c, 11)
    ELSE VMsucceed([v EXCEPT !.current = v.current \cup {<<c, b>>}])

\* the guest of Control Block b has run and exited with registers `exit`
GuestExit(v, b, exit) == [v EXCEPT !.gregs[b] = exit]

\* launch that counts the block as launched before the entry is attempted
launch_marked_first(v, c, bad, exit) ==
    IF ~v.enabled[c] THEN Fatal(v)
    ELSE IF ~\E b \in Blocks : <<c, b>> \in v.current THEN VMfail(v, c, 0)
    ELSE LET b == CHOOSE x \in Blocks : <<c, x>> \in v.current
             w == [v EXCEPT !.launched = v.launched \cup {b}]
         IN  IF b \in v.launched THEN VMfail(w, c, 4)
             ELSE IF bad THEN VMfail(w, c, 7)
             ELSE VMsucceed(GuestExit(w, b, exit))

\* launch: the first entry into the guest of the block current on core c;
\* `bad`: the hardware finds the block's configuration invalid
launch(v, c, bad, exit) ==
    IF ~v.enabled[c] THEN Fatal(v)
    ELSE IF ~\E b \in Blocks : <<c, b>> \in v.current THEN VMfail(v, c, 0)
    ELSE LET b == CHOOSE x \in Blocks : <<c, x>> \in v.current
         IN  IF b \in v.launched THEN VMfail(v, c, 4)
             ELSE IF bad THEN VMfail(v, c, 7)
             ELSE VMsucceed(GuestExit([v EXCEPT !.launched = v.launched \cup {b}],
                                      b, exit))

\* resume: a further entry into the guest of the block current on core c
resume(v, c, bad, exit) ==
    IF ~v.enabled[c] THEN Fatal(v)
    ELSE IF ~\E b \in Blocks : <<c, b>> \in v.current THEN VMfail(v, c, 0)
    ELSE LET b == CHOOSE x \in Blocks : <<c, x>> \in v.current
         IN  IF b \notin v.launched THEN VMfail(v, c, 5)
             ELSE IF bad THEN VMfail(v, c, 8)
             ELSE VMsucceed(GuestExit(v, b, exit))

\* the guest registers a Virtual-CPU is configured with, and those a guest
\* leaves at an exit
ConfiguredRegs == Default
ExitRegs == { Image(V_123456789abcdef0, Zero64) }

\* Ok(()) and Err(e) of an AxResult
AxOk     == [ok |-> TRUE, kind |-> "", msg |-> ""]
AxErr(e) == [ok |-> FALSE, kind |-> e.kind, msg |-> e.msg]

NoVcpuCall ==
    [op |-> "none", core |-> 0, block |-> 0, abort |-> FALSE, flags |-> "Ok",
     ret |-> AxOk, pre |-> <<>>]

VcpuIdle ==
    /\ vcpu = [enabled |-> <<>>, current |-> {}, launched |-> {},
               revOk |-> <<>>, errField |-> <<>>, gregs |-> <<>>]
    /\ vlast = NoVcpuCall
    /\ vops = 0

\* a run begins with no Control Block in use; virtualization is enabled on
\* no core yet, or was enabled on all of them before; the blocks carry the
\* hardware's revision tag, or the first of them does not
InitVcpu ==
    /\ \E rev \in { [b \in Blocks |-> TRUE], [b \in Blocks |-> b # 1] },
          on \in { [c \in Cores |-> FALSE], [c \in Cores |-> TRUE] } :
        vcpu = [enabled |-> on, current |-> {},
                launched |-> {}, revOk |-> rev,
                errField |-> [b \in Blocks |-> 0],
                gregs |-> [b \in Blocks |-> ConfiguredRegs]]
    /\ vlast = NoVcpuCall
    /\ vops = 0

VcpuCallEnabled == ~panicked /\ vops < MaxVcpuOps

\* an operation of the layer, made on core c, with the hardware's outcome r:
\* the two flags are turned into the typed result at this boundary
VcpuCall(op, c, b, r) ==
    /\ vcpu' = r.v
    /\ vlast' = [NoVcpuCall EXCEPT
                    !.op = op, !.core = c, !.block = b, !.abort = r.abort,
                    !.flags = r.flags,
                    !.ret = IF r.flags \in VmFail
                            THEN AxErr(as_axerr(r.flags,
                                    IF r.flags = "VmFailValid"
                                    THEN instruction_error(r.v, c) ELSE 0))
                            ELSE AxOk,
                    !.pre = vcpu]
    /\ panicked' = r.abort
    /\ vops' = vops + 1
    /\ UNCHANGED <<regVars, vmxVars, frameVars, asmVars>>

\* the block current on core c, 0 if there is none
CurrentOn(v, c) ==
    IF \E b \in Blocks : <<c, b>> \in v.current
    THEN CHOOSE b \in Blocks : <<c, b>> \in v.current ELSE 0

\* enable virtualization on the calling core
VcpuEnable ==
    /\ VcpuCallEnabled
    /\ \E c \in Cores, bad \in BOOLEAN :
        VcpuCall("enable", c, 0, enable(vcpu, c, bad))

\* disable virtualization on the calling core
VcpuDisable ==
    /\ VcpuCallEnabled
    /\ \E c \in Cores : VcpuCall("disable", c, 0, disable(vcpu, c))

\* clear a Control Block
VcpuClear ==
    /\ VcpuCallEnabled
    /\ \E c \in Cores, b \in Blocks, bad \in BOOLEAN :
        VcpuCall("clear", c, b, clear(vcpu, c, b, bad))

\* load a Control Block on the calling core
VcpuLoad ==
    /\ VcpuCallEnabled
    /\ \E c \in Cores, b \in Blocks, code \in {9, 10} :
        VcpuCall("load", c, b, load(vcpu, c, b, code))

\* launch the Virtual-CPU whose block is current on the calling core
VcpuLaunch ==
    /\ VcpuCallEnabled
    /\ \E c \in Cores, bad \in BOOLEAN, exit \in ExitRegs :
        VcpuCall("launch", c, CurrentOn(vcpu, c), launch(vcpu, c, bad, exit))

\* resume the Virtual-CPU whose block is current on the calling core
VcpuResume ==
    /\ VcpuCallEnabled
    /\ \E c \in Cores, bad \in BOOLEAN, exit \in ExitRegs :
        VcpuCall("resume", c, CurrentOn(vcpu, c), resume(vcpu, c, bad, exit))

(***************************************************************************)
(* Specifications                                                          *)
(***************************************************************************)
RegsIdle ==
    /\ row = TestRow(0, "rax", "eax", "ax", "al", "ah")
    /\ regs = Default
    /\ saved = Default
    /\ last = NoCall
    /\ nops = 0

VmxIdle == vmx = NoVmxCall

FramesIdle ==
    /\ frames = <<>>
    /\ nframes = 0
    /\ hostAlloc = {}
    /\ hostLog = <<>>
    /\ mem = { [lo |-> HostVirtBase, hi |-> HostVirtBase + MemSize, byte |-> 0] }
    /\ flast = NoFrameCall
    /\ fops = 0

\* the Register File and its diff
InitRegFile ==
    /\ row \in TestRows
    /\ regs \in InitRegs
    /\ saved \in InitSaved(regs)
    /\ last = NoCall
    /\ nops = 0
    /\ panicked = FALSE
    /\ VmxIdle
    /\ FramesIdle
    /\ AsmIdle
    /\ VcpuIdle

NextRegs ==
    \/ GetRegOfIndex
    \/ SetRegOfIndex
    \/ SetView
    \/ GetView
    \/ GetEdxEax
    \/ Snapshot
    \/ DiffFmt
    \/ DiffIsSame

SpecRegs == InitRegFile /\ [][NextRegs]_vars

\* the VMX definitions
InitVmx ==
    /\ RegsIdle
    /\ panicked = FALSE
    /\ VmxIdle
    /\ FramesIdle
    /\ AsmIdle
    /\ VcpuIdle

NextVmx ==
    \/ CallFromVector
    \/ CallVectorHasErrorCode
    \/ CallIsSoft
    \/ CallExitReasonTryFrom
    \/ CallAsStr
    \/ VmxReturn

SpecVmx == InitVmx /\ [][NextVmx]_vars

\* physical frames over the host's allocator
InitFrames ==
    /\ RegsIdle
    /\ panicked = FALSE
    /\ VmxIdle
    /\ frames = <<>>
    /\ nframes = 0
    /\ hostAlloc = {}
    /\ hostLog = <<>>
    /\ \E g \in GarbageBytes :
        mem = { [lo |-> HostVirtBase, hi |-> HostVirtBase + MemSize, byte |-> g] }
    /\ flast = NoFrameCall
    /\ fops = 0
    /\ AsmIdle
    /\ VcpuIdle

NextFrames ==
    \/ FrameAlloc
    \/ FrameAllocZero
    \/ FrameUninit
    \/ FrameStartPaddr
    \/ FrameAsMutPtr
    \/ FrameFill
    \/ FrameDrop

SpecFrames == InitFrames /\ [][NextFrames]_vars

\* the register save area under the two assembly macros
InitSaveArea ==
    /\ RegsIdle
    /\ panicked = FALSE
    /\ VmxIdle
    /\ FramesIdle
    /\ InitAsm
    /\ VcpuIdle

NextSaveArea ==
    \/ AsmSave
    \/ AsmClobber
    \/ AsmSetReg
    \/ AsmBeginRestore
    \/ AsmRestore

SpecSaveArea == InitSaveArea /\ [][NextSaveArea]_vars

\* the VMX layer
InitVmxLayer ==
    /\ RegsIdle
    /\ panicked = FALSE
    /\ VmxIdle
    /\ FramesIdle
    /\ AsmIdle
    /\ InitVcpu

NextVmxLayer ==
    \/ VcpuEnable
    \/ VcpuDisable
    \/ VcpuClear
    \/ VcpuLoad
    \/ VcpuLaunch
    \/ VcpuResume

SpecVmxLayer == InitVmxLayer /\ [][NextVmxLayer]_vars

\* the whole crate
Init == InitRegFile \/ InitFrames \/ InitSaveArea \/ InitVmxLayer
Next == NextRegs \/ NextVmx \/ NextFrames \/ NextSaveArea \/ NextVmxLayer
Spec == Init /\ [][Next]_vars

(***************************************************************************)
(* Properties of the Register File                                         *)
(***************************************************************************)
\* the architectural encoding order of the registers: index -> register
ArchOrder ==
    [i \in 0..15 |->
        <<"rax", "rcx", "rdx", "rbx", "rsp", "rbp", "rsi", "rdi", "r8", "r9",
          "r10", "r11", "r12", "r13", "r14", "r15">>[i + 1]]

\* the indices of the fifteen registers
ValidIndices == (0..15) \ {4}

\* every field but f is the same in the two Register Files
SameBut(a, b, f) == \A g \in Fields \ {f} : a[g] = b[g]

\* C1: for every register index i of 0..3, 5..15 and every value V, after
\* set_reg_of_index(i, V) the field named by the architectural order holds V
\* and get_reg_of_index(i) returns V; get_reg_of_index(i) returns what that
\* named field holds.
C1_IndexedRoundTrip ==
    /\ (last.op = "set_reg_of_index" /\ last.index \in ValidIndices) =>
            /\ ~last.panic
            /\ regs[ArchOrder[last.index]] = last.value
            /\ get_reg_of_index(regs, last.index) = Return(last.value)
    /\ (last.op = "get_reg_of_index" /\ last.index \in ValidIndices) =>
            /\ ~last.panic
            /\ last.ret = last.pre[ArchOrder[last.index]]

\* a get_reg_of_index(7) that returns the value an earlier
\* set_reg_of_index(7, V) wrote over other content
C1_Witness ==
    /\ last.op = "get_reg_of_index"
    /\ last.index = 7
    /\ last.ret = V_123456789abcdef0
    /\ regs["rdi"] = V_123456789abcdef0
    /\ regs["rsi"] # V_123456789abcdef0

\* C2: get_reg_of_index and set_reg_of_index panic exactly for index 4 and
\* the indices above 15; a call that panics returns nothing, ends the
\* program and leaves all sixteen slots as they were.
C2_IllegalIndexPanics ==
    last.op \in {"get_reg_of_index", "set_reg_of_index"} =>
        /\ last.panic <=> (last.index = 4 \/ last.index > 15)
        /\ last.panic =>
            /\ panicked
            /\ last.ret = Panic.val
            /\ \A f \in Fields : regs[f] = last.pre[f]

\* set_reg_of_index(4, V) has panicked over a reserved slot that holds
\* something, and the slot still holds it
C2_Witness ==
    /\ last.op = "set_reg_of_index"
    /\ last.index = 4
    /\ last.panic
    /\ panicked
    /\ regs["_unused_rsp"] = V_a5a5a5a5a5a5a5a5

\* the low `n` bytes of a u64 are those of v and the others are 0
ZeroExtended(w, v) ==
    \A i \in 0..7 : w[i] = IF i \in DOMAIN v THEN v[i] ELSE 0

\* C3: after the 32-bit setter of a register is called with V, the whole
\* 64-bit register is V zero-extended, whatever it held, and no other
\* register has changed.
C3_Set32ZeroExtends ==
    (last.op = "set" /\ last.view = row.reg32) =>
        /\ ZeroExtended(regs[row.reg], last.value)
        /\ \A k \in 32..63 : BitOf(regs[row.reg], k) = 0
        /\ SameBut(regs, last.pre, row.reg)

\* set_r11d(0x9abcde01) on r11 = 0xfedcba9876543210
C3_Witness ==
    /\ last.op = "set"
    /\ last.view = "r11d"
    /\ last.pre["r11"] = V_fedcba9876543210
    /\ regs["r11"] = Hex64(<<0, 0, 0, 0, \h9a, \hbc, \hde, \h01>>)

\* the bit range a 16-bit, low-byte or high-byte view of the run's register
\* covers: <<first, one past the last>>
RangeOfView(view) ==
    CASE view = row.reg16 -> <<0, 16>>
      [] view = row.reg8  -> <<0, 8>>
      [] view = row.reg8h -> <<8, 16>>

\* C4: after the setter of a 16-bit, low-byte or high-byte view is called
\* with V, the register's bits inside the view's range are V and every bit
\* outside it is as before, and no other register has changed; the low-byte
\* and high-byte setters of a register commute.
C4_NarrowSetPreserves ==
    /\ (last.op = "set" /\ last.view \in {row.reg16, row.reg8, row.reg8h}) =>
        LET rg == RangeOfView(last.view)
            v  == AsU64(last.value)
        IN  /\ \A k \in 0..63 :
                    BitOf(regs[row.reg], k) =
                        IF rg[1] <= k /\ k < rg[2]
                        THEN BitOf(v, k - rg[1])
                        ELSE BitOf(last.pre[row.reg], k)
            /\ impl_getter(regs, AccessorOf(last.view)) = last.value
            /\ SameBut(regs, last.pre, row.reg)
    /\ row.reg8h # "" =>
        \A x \in Vals8, y \in {Hex8(\h12), Hex8(\hff)} :
            LET lo == AccessorOf(row.reg8)
                hi == AccessorOf(row.reg8h)
            IN  /\ impl_setter(impl_setter(regs, lo, x), hi, y)
                     = impl_setter(impl_setter(regs, hi, y), lo, x)
                /\ impl_getter(impl_setter(regs, lo, x), hi)
                     = impl_getter(regs, hi)
                /\ impl_getter(impl_setter(regs, hi, y), lo)
                     = impl_getter(regs, lo)

\* set_bh(0x34) on rbx = 0xfedcba9876543210
C4_Witness ==
    /\ last.op = "set"
    /\ last.view = "bh"
    /\ last.pre["rbx"] = V_fedcba9876543210
    /\ regs["rbx"] = Hex64(<<\hfe, \hdc, \hba, \h98, \h76, \h54, \h34, \h10>>)

\* the names of the entries of a diff output, in order
NamesOf(fields) == [k \in DOMAIN fields |-> fields[k].name]

\* the registers, in architectural order from index i on, that differ
\* between two Register Files
RECURSIVE ChangedFrom(_, _, _)
ChangedFrom(old, new, i) ==
    IF i > 15 THEN <<>>
    ELSE IF i # 4 /\ old[ArchOrder[i]] # new[ArchOrder[i]]
    THEN <<ArchOrder[i]>> \o ChangedFrom(old, new, i + 1)
    ELSE ChangedFrom(old, new, i + 1)

\* C9: the diff of two snapshots reports exactly the registers of index
\* 0..3, 5..15 whose values differ, each once with its old and new value:
\* nothing for equal snapshots, one entry "rbx" when only rbx differs, and
\* never "rsp", whatever the reserved slots hold.
C9_DiffReportsChanged ==
    last.op = "diff_fmt" =>
        /\ ~last.panic
        /\ NamesOf(last.fields) = ChangedFrom(last.old, last.pre, 0)
        /\ \A k \in DOMAIN last.fields :
            /\ last.fields[k].name # "rsp"
            /\ last.fields[k].old = last.old[last.fields[k].name]
            /\ last.fields[k].new = last.pre[last.fields[k].name]
        /\ (\A f \in Fields \ {"_unused_rsp"} : last.old[f] = last.pre[f])
                => last.fields = <<>>
        /\ (\A f \in Fields \ {"_unused_rsp"} : (last.old[f] # last.pre[f]) <=> f = "rbx")
                => NamesOf(last.fields) = <<"rbx">>

\* a diff of two snapshots that differ in rbx and in the reserved slot
\* reports the one entry rbx
C9_Witness ==
    /\ last.op = "diff_fmt"
    /\ last.old["_unused_rsp"] # last.pre["_unused_rsp"]
    /\ last.old["rbx"] = V_fedcba9876543210
    /\ last.pre["rbx"] = V_123456789abcdef0
    /\ Len(last.fields) = 1
    /\ last.fields[1].name = "rbx"

(***************************************************************************)
(* Properties of the VMX definitions                                       *)
(***************************************************************************)
\* C5: from_vector returns PrivSoftException for 1, NMI for 2, SoftException
\* for 3 and 4, HardException for 0 and 5..21, External for 32..255 and
\* Other for 22..31.
C5_FromVector ==
    vmx.fn = "from_vector" =>
        vmx.ty = CASE vmx.arg = 1 -> "PrivSoftException"
                   [] vmx.arg = 2 -> "NMI"
                   [] vmx.arg \in {3, 4} -> "SoftException"
                   [] vmx.arg = 0 \/ vmx.arg \in 5..21 -> "HardException"
                   [] vmx.arg \in 32..255 -> "External"
                   [] vmx.arg \in 22..31 -> "Other"

\* C6: vector_has_error_code(v) is true exactly for v in
\* {8, 10, 11, 12, 13, 14, 17}, over all of 0..255.
C6_VectorHasErrorCode ==
    vmx.fn = "vector_has_error_code" =>
        (vmx.flag <=> vmx.arg \in {8, 10, 11, 12, 13, 14, 17})

\* vector_has_error_code(17) has returned true
C6_Witness ==
    /\ vmx.fn = "vector_has_error_code"
    /\ vmx.arg = 17
    /\ vmx.flag

\* the exit-reason codes that are defined
DefinedExitCodes == (0..34) \cup {36, 37, 39, 40, 41} \cup (43..69)

\* C7: decoding a raw exit-reason code n succeeds exactly for the defined
\* codes, then with the variant whose encoding is n; any other code, the
\* gaps 35, 38, 42 and the codes above 69 included, gives the explicit
\* failure and no variant.
C7_ExitReasonDecode ==
    vmx.fn = "try_from" =>
        /\ vmx.ok <=> vmx.arg \in DefinedExitCodes
        /\ vmx.ok =>
            /\ \E k \in DOMAIN VmxExitReason : VmxExitReason[k][1] = vmx.variant
            /\ ExitReasonAsU32(vmx.variant) = vmx.arg
            /\ \A k \in DOMAIN VmxExitReason :
                    VmxExitReason[k][1] = vmx.variant => VmxExitReason[k][2] = vmx.arg
        /\ ~vmx.ok => (vmx.variant = "" /\ vmx.err = vmx.arg)

\* decoding the unassigned code 38 has failed
C7_Witness ==
    /\ vmx.fn = "try_from"
    /\ vmx.arg = 38
    /\ ~vmx.ok
    /\ vmx.err = 38

\* the instruction-error codes of the hardware table
InstructionErrorCodes == (1..13) \cup (15..20) \cup (22..26) \cup {28}

\* C8: as_str returns a string for every code: "OK" for 0, for every code
\* of the hardware table a nonempty description that no other code has, and
\* for every other code the one placeholder of invalid codes.
C8_InstructionErrorString ==
    vmx.fn = "as_str" =>
        /\ vmx.arg = 0 => vmx.str = "OK"
        /\ vmx.arg \in InstructionErrorCodes =>
            /\ vmx.str \notin {"", "OK", "[INVALID]"}
            /\ \A c \in Codes \ {vmx.arg} : as_str(c) # vmx.str
        /\ vmx.arg \notin InstructionErrorCodes \cup {0} =>
            /\ vmx.str = "[INVALID]"
            /\ vmx.str = as_str(27)

\* as_str of the unassigned code 14 has returned the placeholder
C8_Witness ==
    /\ vmx.fn = "as_str"
    /\ vmx.arg = 14
    /\ vmx.str = "[INVALID]"

(***************************************************************************)
(* Properties of the physical frames                                       *)
(***************************************************************************)
\* the places of hostLog that hold a call of `fn`
CallsOf(fn) == { k \in DOMAIN hostLog : hostLog[k].fn = fn }

\* C10: dropping an allocated frame calls dealloc_frame once, with the
\* address alloc_frame returned for that frame; dropping a placeholder calls
\* nothing; no address is given to dealloc_frame twice without an
\* alloc_frame of it in between; the page of every dropped allocated frame
\* has been returned.
C10_DropReturnsPageOnce ==
    /\ flast.op = "drop" =>
        IF flast.obj.start_paddr.some
        THEN /\ Len(flast.calls) = 1
             /\ flast.calls[1].fn = "dealloc_frame"
             /\ \E k \in CallsOf("alloc_frame") :
                    /\ hostLog[k].frame = flast.frame
                    /\ hostLog[k].addr = flast.calls[1].addr
        ELSE flast.calls = <<>>
    /\ \A i, j \in CallsOf("dealloc_frame") :
        (i < j /\ hostLog[i].addr = hostLog[j].addr) =>
            \E k \in CallsOf("alloc_frame") :
                i < k /\ k < j /\ hostLog[k].addr = hostLog[i].addr
    /\ \A j \in CallsOf("dealloc_frame") :
        \E k \in CallsOf("alloc_frame") :
            /\ k < j
            /\ hostLog[k].frame = hostLog[j].frame
            /\ hostLog[k].addr = hostLog[j].addr
    /\ \A k \in CallsOf("alloc_frame") :
        (hostLog[k].addr > 0 /\ hostLog[k].frame \notin DOMAIN frames) =>
            /\ Cardinality({ j \in CallsOf("dealloc_frame") :
                    hostLog[j].frame = hostLog[k].frame }) = 1
            /\ \E j \in CallsOf("dealloc_frame") :
                    /\ j > k
                    /\ hostLog[j].frame = hostLog[k].frame
                    /\ hostLog[j].addr = hostLog[k].addr

\* a frame that was allocated and filled has been dropped, and its page
\* went back to the host in the one call the drop made; a placeholder was
\* dropped before it without any
C10_Witness ==
    /\ flast.op = "drop"
    /\ flast.obj.start_paddr.some
    /\ flast.calls = <<HostCall("dealloc_frame", flast.obj.start_paddr.addr, flast.frame)>>
    /\ \E k \in CallsOf("phys_to_virt") : hostLog[k].frame = flast.frame
    /\ flast.obj.start_paddr.addr \notin hostAlloc
    /\ nframes = 2
    /\ frames = <<>>
    /\ Cardinality(CallsOf("dealloc_frame")) = 1

\* C11: alloc returns NoMemory, makes no frame and no further host call
\* when alloc_frame answers none, and dealloc_frame is only ever called for
\* a page alloc_frame gave; when alloc_frame answers a page, the frame holds
\* that address; the answer 0 aborts and makes no frame; every allocated
\* frame alive has an address other than 0.
C11_AllocNoMemoryNonNull ==
    /\ flast.op = "alloc" =>
        LET answer == flast.calls[1].addr
        IN  /\ flast.calls = <<HostCall("alloc_frame", answer, flast.frame)>>
            /\ answer = -1 =>
                /\ ~flast.ok /\ ~flast.panic /\ ~panicked
                /\ flast.err = "NoMemory"
                /\ flast.frame \notin DOMAIN frames
                /\ nframes = flast.frame - 1
            /\ answer = 0 =>
                /\ flast.panic /\ panicked /\ ~flast.ok
                /\ flast.frame \notin DOMAIN frames
            /\ answer > 0 =>
                /\ flast.ok /\ ~flast.panic /\ flast.err = ""
                /\ flast.frame \in DOMAIN frames
                /\ frames[flast.frame] = PhysFrame(Some(answer))
    /\ \A j \in CallsOf("dealloc_frame") :
        /\ hostLog[j].addr > 0
        /\ \E k \in CallsOf("alloc_frame") : k < j /\ hostLog[k].addr = hostLog[j].addr
    /\ Cardinality(CallsOf("dealloc_frame"))
            <= Cardinality({ k \in CallsOf("alloc_frame") : hostLog[k].addr > 0 })
    /\ \A id \in DOMAIN frames :
        frames[id].start_paddr.some => frames[id].start_paddr.addr # 0

\* alloc has returned NoMemory beside a frame allocated before it, then the
\* host was asked for nothing more and that frame's drop made the only
\* dealloc_frame call
C11_Witness ==
    /\ flast.op = "drop"
    /\ Len(hostLog) = 3
    /\ hostLog[1].fn = "alloc_frame" /\ hostLog[1].addr > 0
    /\ hostLog[2] = HostCall("alloc_frame", -1, 2)
    /\ hostLog[3] = HostCall("dealloc_frame", hostLog[1].addr, 1)
    /\ nframes = 1
    /\ ~panicked

\* C12: start_paddr, as_mut_ptr and fill abort exactly on a placeholder;
\* when they abort no address is returned, phys_to_virt has not been called
\* and no byte has been written.
C12_PlaceholderAborts ==
    flast.op \in {"start_paddr", "as_mut_ptr", "fill"} =>
        /\ flast.panic <=> ~flast.obj.start_paddr.some
        /\ flast.panic =>
            /\ panicked
            /\ ~flast.ok
            /\ flast.ret = 0
            /\ flast.calls = <<>>
            /\ mem = flast.preMem
        /\ ~flast.panic =>
            /\ flast.op = "start_paddr" => flast.ret = flast.obj.start_paddr.addr
            /\ flast.op = "as_mut_ptr" =>
                    flast.ret = phys_to_virt(flast.obj.start_paddr.addr)

\* fill on a placeholder has aborted after an allocated frame was filled
C12_Witness ==
    /\ flast.op = "fill"
    /\ ~flast.obj.start_paddr.some
    /\ flast.panic
    /\ panicked
    /\ \E k \in CallsOf("phys_to_virt") : hostLog[k].frame # flast.frame
    /\ \A k \in CallsOf("phys_to_virt") : hostLog[k].frame # flast.frame

\* Memory is constant on each of its segments, so two memories agree on a
\* range of addresses, or one holds a given byte all over a range, if that
\* is so at the first and last address of every segment of either and of
\* the range itself.
EndsIn(m1, m2, lo, hi) ==
    { a \in {lo, hi - 1} \cup { seg.lo : seg \in m1 \cup m2 }
                         \cup { seg.hi - 1 : seg \in m1 \cup m2 } :
        lo <= a /\ a < hi }

\* every byte of [lo, hi) of memory m is b
AllBytes(m, lo, hi, b) == \A a \in EndsIn(m, m, lo, hi) : ByteAt(m, a) = b

\* memories m1 and m2 hold the same bytes in [lo, hi)
SameBytes(m1, m2, lo, hi) ==
    \A a \in EndsIn(m1, m2, lo, hi) : ByteAt(m1, a) = ByteAt(m2, a)

\* every address of memory lies in exactly one segment
WellFormed(m) ==
    /\ \A s1, s2 \in m : s1 # s2 => (s1.hi <= s2.lo \/ s2.hi <= s1.lo)
    /\ \A seg \in m : HostVirtBase <= seg.lo /\ seg.lo < seg.hi
                        /\ seg.hi <= HostVirtBase + MemSize
    /\ \A a \in EndsIn(m, m, HostVirtBase, HostVirtBase + MemSize) :
            \E seg \in m : seg.lo <= a /\ a < seg.hi
    /\ \A seg \in m : seg.hi < HostVirtBase + MemSize =>
            \E s2 \in m : s2.lo = seg.hi

\* C13: after fill(b) on an allocated frame every byte of its page, read
\* through the window as_mut_ptr gives, is b and no byte outside the page
\* has changed; after a successful alloc_zero every byte of the new frame's
\* page is 0 and no other byte has changed; an alloc_zero whose allocation
\* failed returns the error and has written nothing.
C13_FillWritesPage ==
    /\ WellFormed(mem)
    /\ (flast.op = "fill" /\ ~flast.panic) =>
        LET base == as_mut_ptr(flast.obj, flast.frame).val
        IN  /\ AllBytes(mem, base, base + PAGE_SIZE, flast.byte)
            /\ flast.byte = \hff =>
                    /\ ByteAt(mem, base) = 255
                    /\ ByteAt(mem, base + PAGE_SIZE - 1) = 255
            /\ SameBytes(mem, flast.preMem, HostVirtBase, base)
            /\ SameBytes(mem, flast.preMem, base + PAGE_SIZE, HostVirtBase + MemSize)
    /\ (flast.op = "alloc_zero" /\ flast.ok) =>
        LET base == as_mut_ptr(frames[flast.frame], flast.frame).val
        IN  /\ AllBytes(mem, base, base + PAGE_SIZE, 0)
            /\ SameBytes(mem, flast.preMem, HostVirtBase, base)
            /\ SameBytes(mem, flast.preMem, base + PAGE_SIZE, HostVirtBase + MemSize)
    /\ (flast.op = "alloc_zero" /\ ~flast.ok /\ ~flast.panic) =>
        /\ flast.err = "NoMemory"
        /\ mem = flast.preMem
        /\ flast.calls = <<HostCall("alloc_frame", -1, flast.frame)>>
        /\ flast.frame \notin DOMAIN frames

\* a frame allocated over memory that held 0xcc has been filled with 0xff:
\* its page reads 0xff from end to end and the bytes next to it still 0xcc
C13_Witness ==
    /\ flast.op = "fill"
    /\ ~flast.panic
    /\ flast.byte = \hff
    /\ LET base == phys_to_virt(flast.obj.start_paddr.addr)
       IN  /\ ByteAt(mem, base) = \hff
           /\ ByteAt(mem, base + PAGE_SIZE - 1) = \hff
           /\ ByteAt(mem, base - 1) = \hcc
           /\ base + PAGE_SIZE < HostVirtBase + MemSize
           /\ ByteAt(mem, base + PAGE_SIZE) = \hcc

\* C18: is_same returns true exactly when the fifteen registers of index
\* 0..3, 5..15 are equal in the old and the new snapshot, that is exactly
\* when the diff reports no entry, also when the snapshots differ in the
\* reserved slot only.
C18_IsSameAgreesWithDiff ==
    last.op = "is_same" =>
        /\ last.same <=>
            \A i \in ValidIndices : last.old[ArchOrder[i]] = last.pre[ArchOrder[i]]
        /\ last.same <=>
            fmt(GeneralRegistersDiff_new(last.old, last.pre)).fields = <<>>

(***************************************************************************)
(* Properties of the register save area                                    *)
(***************************************************************************)
\* where the sixteen slots of a save begin: the stack top after it
SaveBase == asm.rsp0 - 16 * WORD

\* the addresses of the fifteen register slots of a save
RegisterSlots == { SaveBase + WORD * i : i \in ValidIndices }

\* C17: after save_regs_to_stack the sixteen slots from the new stack top
\* upward hold rax, rcx, rdx, rbx, an unwritten slot, rbp, rsi, rdi,
\* r8..r15, which is the field order of GeneralRegisters;
\* restore_regs_from_stack loads each of the fifteen registers from its slot
\* and leaves the stack pointer where it was before the save; the reserved
\* slot is neither written nor read.
C17_SaveAreaLayout ==
    /\ asm.phase = "saved" =>
        /\ asm.rsp = SaveBase
        /\ \A i \in ValidIndices :
            /\ asm.stack[SaveBase + WORD * i] = asm.cpu0[ArchOrder[i]]
            /\ get_reg_of_index(StructAt(asm.stack, asm.rsp), i)
                    = Return(asm.cpu0[ArchOrder[i]])
        /\ \A f \in AsmRegs : StructAt(asm.stack, asm.rsp)[f] = asm.cpu0[f]
        /\ asm.stack[SaveBase + WORD * RSP_INDEX] = asm.garbage
        /\ asm.writes = RegisterSlots
        /\ \A a \in StackAddrs \ RegisterSlots : asm.stack[a] = asm.garbage
    /\ asm.phase = "restored" =>
        /\ asm.rsp = asm.rsp0
        /\ \A i \in ValidIndices :
            asm.cpu[ArchOrder[i]] = asm.stack[SaveBase + WORD * i]
        /\ \A f \in AsmRegs : asm.cpu[f] = asm.saved[f]
        /\ asm.reads = RegisterSlots
        /\ asm.writes = RegisterSlots
    /\ asm.phase # "off" =>
        (SaveBase + WORD * RSP_INDEX) \notin (asm.writes \cup asm.reads)

\* registers saved over a stack of 0xa5 bytes and then overwritten have been
\* restored: rcx is back, rax has the value set_reg_of_index(0, ..) put into
\* the save area, the stack pointer is back and the reserved slot still
\* holds 0xa5 bytes
C17_Witness ==
    /\ asm.phase = "restored"
    /\ asm.rsp = asm.rsp0
    /\ asm.cpu["rcx"] = asm.cpu0["rcx"]
    /\ asm.cpu["rax"] = V_123456789abcdef0
    /\ asm.cpu0["rax"] # V_123456789abcdef0
    /\ asm.garbage = V_a5a5a5a5a5a5a5a5
    /\ asm.stack[SaveBase + WORD * RSP_INDEX] = V_a5a5a5a5a5a5a5a5

(***************************************************************************)
(* Properties of the VMX layer                                             *)
(***************************************************************************)
\* C14: every failure the hardware reports for an operation on a Control
\* Block, by either of its two flag outcomes, reaches the caller as a
\* BadState error and nothing else: the `valid' failure with the text of
\* the instruction error recorded in the Control Block, the `invalid' one
\* with the fixed text about the control-block pointer; a result carries no
\* flags, and it is a success only if the hardware reported none.
C14_FailureIsBadState ==
    (vlast.op # "none" /\ ~vlast.abort) =>
        /\ DOMAIN vlast.ret = {"ok", "kind", "msg"}
        /\ vlast.ret.ok <=> vlast.flags \notin VmFail
        /\ vlast.ret.ok => (vlast.ret.kind = "" /\ vlast.ret.msg = "")
        /\ vlast.flags \in VmFail => vlast.ret.kind = "BadState"
        /\ vlast.flags = "VmFailValid" =>
            /\ CurrentOn(vcpu, vlast.core) # 0
            /\ vlast.ret.msg = as_str(vcpu.errField[CurrentOn(vcpu, vlast.core)])
        /\ vlast.flags = "VmFailInvalid" =>
            /\ CurrentOn(vlast.pre, vlast.core) = 0
            /\ vlast.ret.msg = "VMCS pointer is not valid"
            /\ vcpu = vlast.pre

\* a resume of a block that was never launched has failed with the text of
\* error 5, after an operation without a current block failed with the
\* generic text
C14_Witness ==
    /\ vlast.op = "resume"
    /\ vlast.flags = "VmFailValid"
    /\ vlast.ret = [ok |-> FALSE, kind |-> "BadState",
                    msg |-> "VMRESUME with non-launched VMCS"]
    /\ vcpu.errField[vlast.block] = 5

\* the cores block b is current on, and the blocks current on core c
CoresOf(v, b)  == { c \in Cores : <<c, b>> \in v.current }
BlocksOn(v, c) == { b \in Blocks : <<c, b>> \in v.current }

\* C15: at most one Control Block is current on a core and a Control Block
\* is current on at most one core; load fails with a BadState error when
\* another block is still current on the calling core; a block becomes
\* current only by a load that finds it cleared, and stops being current
\* only by being cleared, so it gets to another core only after a clear.
C15_OneCurrentPerCore ==
    /\ \A c \in Cores : Cardinality(BlocksOn(vcpu, c)) <= 1
    /\ \A b \in Blocks : Cardinality(CoresOf(vcpu, b)) <= 1
    /\ (vlast.op = "load" /\ ~vlast.abort
            /\ BlocksOn(vlast.pre, vlast.core) \ {vlast.block} # {}) =>
        /\ ~vlast.ret.ok
        /\ vlast.ret.kind = "BadState"
        /\ vcpu.current = vlast.pre.current
    /\ vlast.op # "none" =>
        /\ \A p \in vcpu.current \ vlast.pre.current :
            /\ vlast.op = "load" /\ vlast.ret.ok
            /\ p = <<vlast.core, vlast.block>>
            /\ CoresOf(vlast.pre, p[2]) = {}
            /\ p[2] \notin vlast.pre.launched
        /\ \A p \in vlast.pre.current \ vcpu.current :
            /\ vlast.op = "clear" /\ vlast.ret.ok
            /\ p[2] = vlast.block

\* after an earlier load and a clear, a load on core 2 has found block 1
\* cleared and made it current there
C15_Witness ==
    /\ vlast.op = "load"
    /\ vlast.ret.ok
    /\ vlast.core = 2
    /\ vlast.block = 1
    /\ vcpu.current = {<<2, 1>>}
    /\ vlast.pre.current = {}
    /\ vcpu.errField[1] = 0
    /\ vops = 3

\* C16: the operations keep the order enable, load, launch, exit, resume: a
\* block is current only on an enabled core and launched only while
\* current; launch succeeds only for a block that is current and not yet
\* launched, resume only for one that is launched; a launch or resume the
\* hardware reports as failed returns a BadState error and leaves the
\* blocks' states and the Register Files as they were.
C16_EntryOrder ==
    /\ \A p \in vcpu.current : vcpu.enabled[p[1]]
    /\ \A b \in vcpu.launched : CoresOf(vcpu, b) # {}
    /\ (vlast.op = "load" /\ vlast.ret.ok /\ ~vlast.abort) =>
            vlast.pre.enabled[vlast.core]
    /\ (vlast.op = "launch" /\ vlast.ret.ok /\ ~vlast.abort) =>
        /\ vlast.block # 0
        /\ <<vlast.core, vlast.block>> \in vlast.pre.current
        /\ vlast.block \notin vlast.pre.launched
        /\ vcpu.launched = vlast.pre.launched \cup {vlast.block}
        /\ vcpu.gregs[vlast.block] \in ExitRegs
    /\ (vlast.op = "resume" /\ vlast.ret.ok /\ ~vlast.abort) =>
        /\ vlast.block # 0
        /\ <<vlast.core, vlast.block>> \in vlast.pre.current
        /\ vlast.block \in vlast.pre.launched
        /\ vcpu.launched = vlast.pre.launched
        /\ vcpu.gregs[vlast.block] \in ExitRegs
    /\ (vlast.op \in {"launch", "resume"} /\ vlast.flags \in VmFail) =>
        /\ ~vlast.ret.ok
        /\ vlast.ret.kind = "BadState"
        /\ vcpu.launched = vlast.pre.launched
        /\ vcpu.current = vlast.pre.current
        /\ vcpu.enabled = vlast.pre.enabled
        /\ vcpu.gregs = vlast.pre.gregs

\* a launch has succeeded for a block whose first launch the hardware had
\* refused with error 7
C16_Witness ==
    /\ vlast.op = "launch"
    /\ vlast.ret.ok
    /\ vlast.block \in vcpu.launched
    /\ vlast.pre.errField[vlast.block] = 7
    /\ vlast.block \notin vlast.pre.launched
    /\ vlast.pre.gregs[vlast.block] = ConfiguredRegs
    /\ vcpu.gregs[vlast.block] # ConfiguredRegs

====
